---- MODULE Spec2Model ----
(***************************************************************************)
(* A model of onnxruntime/core/common/threadpool.cc: the sharded loop      *)
(* counter, the fixed-block scheduler and its entry points, the parallel   *)
(* section handle and the thread pool profiler.                            *)
(***************************************************************************)
EXTENDS Integers, Sequences, FiniteSets, TLC

(***************************************************************************)
(* Bounds of the model.                                                    *)
(***************************************************************************)
\* largest iteration count passed to a loop call
MaxTotal == 5
\* largest caller-supplied block size
MaxBlock == 2
\* largest number of worker threads created by a pool
MaxThreads == 2
\* largest dynamic_block_base_ of a pool's thread options
MaxDynBase == 1
\* largest cost-derived minimum block size handed to the block sizer
MaxCostBlock == 1
\* largest number of ParallelSection handles a thread constructs
MaxHandles == 3
\* largest depth of the profiler's timestamp stack
MaxDepth == 2
\* largest total of microseconds logged for one event
MaxMicros == 1
\* largest number of block sizes logged between two Stops
MaxLogged == 1
\* largest number of runs logged for a worker thread
MaxRuns == 1
\* largest n, num_threads and cost-derived block size given to the block sizer
MaxSizerN == 16
MaxSizerP == 3
MaxSizerCost == 3
\* largest product of iteration count and thread count of a loop followed to
\* its return
MaxLiveWork == 9
\* largest product of such a loop's total and the cube of the number of
\* threads running it (the interleavings grow with both)
MaxDynWork == 135
\* largest num_iterations, block_size and d_of_p a LoopCounter is constructed with
MaxCtorN == 20
MaxCtorBlock == 2
MaxCtorDofP == 9
\* largest product of a loop's iteration count and the pool's thread count
\* (workers and caller)
MaxWork == 10

(***************************************************************************)
(* Program constants.                                                      *)
(***************************************************************************)
MAX_SHARDS == 8
TaskGranularityFactor == 4
max_oversharding_factor == 4

VARIABLES
  \* ---- the pool (ThreadPool's fields and the calling thread) ----
  num_threads,          \* NumThreads(): 0 when underlying_threadpool_ is null
  hybrid,               \* force_hybrid_ or CPUIDInfo::IsHybrid()
  dynamic_block_base,   \* thread_options_.dynamic_block_base_
  current_parallel_section, \* the thread-local ParallelSection*: a handle id, 0 for nullptr
  \* ---- the loop call in progress ----
  pc,                   \* "idle", "sched", "loop", "done", "violation"
  entry,                \* the function of ThreadPool that is executing
  total,                \* its iteration count
  block_size,           \* the block size given to the fixed-block scheduler
  current_thread_id,    \* ParallelFor: CurrentThreadId() of the caller
  cost_one,             \* ParallelFor: CostModel::numThreads(...) == 1
  route,                \* how fn / run_work was reached
  \* ---- the LoopCounter and the work items of a dispatched loop ----
  shards,               \* lc._shards[0 .. _num_shards-1], <<>> when no counter
  lc_block,             \* the block size the counter was built with
  left,                 \* the dynamic policy's atomic "left"
  work,                 \* run_work(idx): each work item's locals and position
  \* ---- what fn has been given ----
  hits,                 \* hits[i]: how many delivered ranges contain index i
  ranges,               \* the set of (first, last) pairs delivered
  calls,                \* the number of invocations of fn
  loop_no,              \* the loops run so far in this parallel section
  first_claim           \* per loop, per work item: its home shard and the
                        \* shard of its first successful claim (-1: none yet)

VARIABLES
  \* ---- ParallelSection handles of the thread and the pools' section states ----
  handles,              \* the alive handles, oldest first: [id, tp, ps]
  handle_count,         \* the handles constructed so far
  ps_pool,              \* per section state: the pool that allocated it
  ps_events,            \* per section state: the calls the pool received for it
  ends,                 \* the EndParallelSection calls made: <<tp, ps>>
  run_ps,               \* the section states passed to RunInParallelSection
                        \* since the current section began
  last_op               \* the last operation on sections and its outcome

secVars == <<handles, handle_count, ps_pool, ps_events, ends, run_ps, last_op>>

VARIABLES
  \* ---- ThreadPoolProfiler: the profilers of two pools, used by one thread ----
  enabled,              \* per profiler: enabled_
  stat,                 \* the thread's MainThreadStat: points_, events_, blocks_
  prof_last,            \* the last profiler call and its outcome
  balance,              \* LogStart calls minus LogEnd calls that returned normally
                        \* on the thread through an enabled profiler
  num_run,              \* per profiler: child_thread_stats_[0].num_run_
  unmatched             \* the LogStart calls the thread has made and not yet
                        \* followed by a LogEnd call, when it keeps count

profVars == <<enabled, stat, prof_last, balance, num_run, unmatched>>

VARIABLES
  \* ---- a call of CalculateParallelForBlock, statement by statement ----
  sizer,                \* its arguments, locals and position
  \* ---- a LoopCounter constructed on its own ----
  ctor                  \* the constructor's arguments and the shards it made

auxVars == <<sizer, ctor>>

loopVars == <<num_threads, hybrid, dynamic_block_base, current_parallel_section, pc, entry,
              total, block_size, current_thread_id, cost_one, route, shards, lc_block, left,
              work, hits, ranges, calls, loop_no, first_claim>>

vars == <<loopVars, secVars, profVars, auxVars>>

(***************************************************************************)
(* Arithmetic helpers.                                                     *)
(***************************************************************************)
Min(a, b) == IF a < b THEN a ELSE b

Max(a, b) == IF a > b THEN a ELSE b

\* Eigen::divup
DivUp(a, b) == (a + b - 1) \div b

\* std::llroundl(static_cast<long double>(a) / b) for a >= 0, b > 0:
\* round half away from zero
LLRound(a, b) == (2 * a + b) \div (2 * b)

(***************************************************************************)
(* LoopCounter.                                                            *)
(***************************************************************************)
GetNumShards(num_iterations, d_of_p, blk) ==
  LET num_blocks == num_iterations \div blk
      num_shards == IF num_blocks = 0 THEN 1
                    ELSE IF num_blocks < MAX_SHARDS THEN num_blocks
                    ELSE MAX_SHARDS
  IN  IF num_shards > d_of_p THEN d_of_p ELSE num_shards

\* a constructor that gives the last shard no more than the others
LoopCounterEvenShards(num_iterations, d_of_p, blk) ==
  LET num_shards == GetNumShards(num_iterations, d_of_p, blk)
      iterations_per_shard == ((num_iterations \div blk) \div num_shards) * blk
  IN  [shard \in 0 .. num_shards - 1 |->
         [next |-> shard * iterations_per_shard,
          end  |-> (shard + 1) * iterations_per_shard]]

\* The constructor: the shards as a function 0 .. _num_shards-1 -> (next, end)
LoopCounter(num_iterations, d_of_p, blk) ==
  LET num_shards == GetNumShards(num_iterations, d_of_p, blk)
      num_blocks == num_iterations \div blk
      blocks_per_shard == num_blocks \div num_shards
      iterations_per_shard == blocks_per_shard * blk
  IN  [shard \in 0 .. num_shards - 1 |->
         [next |-> shard * iterations_per_shard,
          end  |-> IF shard = num_shards - 1
                   THEN num_iterations
                   ELSE (shard + 1) * iterations_per_shard]]

NumShards == Cardinality(DOMAIN shards)

\* a home shard that ignores the worker's id
GetHomeShardZero(idx, num_shards) == 0

GetHomeShard(idx, num_shards) == idx % num_shards

\* a claim that takes the rest of the shard instead of one block
ClaimEndRestOfShard(shard_end, temp_start, blk) == shard_end

\* a claim that forgets the end of the shard
ClaimEndUnclamped(shard_end, temp_start, blk) == temp_start + blk

\* my_end of a successful claim
ClaimEnd(shard_end, temp_start, blk) == Min(shard_end, temp_start + blk)

\* a test that takes a shard with one iteration left for an exhausted one
ShardHasWorkButOne(next, shard_end) == next + 1 < shard_end

\* "if (_shards[my_shard]._next < _shards[my_shard]._end)"
ShardHasWork(next, shard_end) == next < shard_end

\* a test that lets a claim at the very end of the shard through
ClaimSucceedsAtEnd(temp_start, shard_end) == temp_start <= shard_end

\* "if (temp_start < _shards[my_shard]._end)"
ClaimSucceeds(temp_start, shard_end) == temp_start < shard_end

\* a counter advanced by two blocks for one claim
FetchAddTwoBlocks(next, blk) == next + 2 * blk

\* a plain store of the block size where the counter should be added to
FetchAddStores(next, blk) == blk

\* the value fetch_add leaves in _next
FetchAdd(next, blk) == next + blk

\* a work item that gives up once its current shard is exhausted
NextShardGiveUp(w) == [w EXCEPT !.pc = "drained"]

\* a work item that keeps going round the shards
NextShardNeverDrained(w) ==
  [w EXCEPT !.shard = (w.shard + 1) % NumShards, !.pc = "check"]

\* "my_shard = (my_shard + 1) % _num_shards; while (my_shard != my_home_shard)":
\* the work item after it found its current shard exhausted
NextShard(w) ==
  LET s == (w.shard + 1) % NumShards
  IN  IF s # w.home
      THEN [w EXCEPT !.shard = s, !.pc = "check"]
      ELSE [w EXCEPT !.shard = s, !.pc = "drained"]

(***************************************************************************)
(* ThreadPool helpers.                                                     *)
(***************************************************************************)
\* tp_null: the ThreadPool* is nullptr
DegreeOfParallelism(tp_null) ==
  IF tp_null THEN 1
  ELSE IF hybrid THEN (num_threads + 1) * TaskGranularityFactor
  ELSE num_threads + 1

\* a check that forgets the caller that is itself the pool's only worker
ShouldParallelizeLoopOutsideOnly(num_iterations, blk, cur) ==
  IF blk <= 0 \/ num_iterations <= blk THEN FALSE
  ELSE IF cur = -1 /\ num_threads = 0 THEN FALSE
  ELSE TRUE

\* cur: CurrentThreadId() of the calling thread
ShouldParallelizeLoop(num_iterations, blk, cur) ==
  IF blk <= 0 \/ num_iterations <= blk THEN FALSE
  ELSE IF \/ (cur = -1 /\ num_threads = 0)
          \/ (cur # -1 /\ num_threads = 1) THEN FALSE
  ELSE TRUE

(***************************************************************************)
(* CalculateParallelForBlock without an alignment function.  An efficiency *)
(* block_count / (divup(block_count, P) * P) is kept as the pair of its    *)
(* numerator and denominator and compared by cross multiplication.         *)
(***************************************************************************)
EffDen(block_count, P) == DivUp(block_count, P) * P

InitialBlock(n, c, P) == Min(n, Max(DivUp(n, max_oversharding_factor * P), c))

\* a sizer without the cap on growth
MaxBlockSizeUncapped(n, c, P) == n

\* max_block_size
MaxBlockSize(n, c, P) == Min(n, 2 * InitialBlock(n, c, P))

\* coarser_efficiency + 0.01 >= max_efficiency
TakeCoarser(cnum, cden, mnum, mden) ==
  100 * cnum * mden + cden * mden >= 100 * mnum * cden

RECURSIVE GrowBlock(_, _, _, _, _, _, _)
GrowBlock(n, P, max_block_size, prev_block_count, blk, mnum, mden) ==
  IF ~(mnum < mden /\ prev_block_count > 1) THEN blk
  ELSE LET coarser_block_size == DivUp(n, prev_block_count - 1)
       IN  IF coarser_block_size > max_block_size THEN blk
           ELSE LET coarser_block_count == DivUp(n, coarser_block_size)
                    cden == EffDen(coarser_block_count, P)
                    take == TakeCoarser(coarser_block_count, cden, mnum, mden)
                    better == take /\ mnum * cden < coarser_block_count * mden
                IN  GrowBlock(n, P, max_block_size, coarser_block_count,
                              IF take THEN coarser_block_size ELSE blk,
                              IF better THEN coarser_block_count ELSE mnum,
                              IF better THEN cden ELSE mden)

CalculateParallelForBlock(n, c, P) ==
  LET b0 == InitialBlock(n, c, P)
      block_count == DivUp(n, b0)
  IN  GrowBlock(n, P, MaxBlockSize(n, c, P), block_count, b0,
                block_count, EffDen(block_count, P))

(***************************************************************************)
(* What fn is given.                                                       *)
(***************************************************************************)
NoHits == [i \in 0 .. MaxTotal - 1 |-> 0]

Deliver(h, first, last) ==
  [i \in DOMAIN h |-> IF first <= i /\ i < last THEN h[i] + 1 ELSE h[i]]

\* the underlying pool exists (degree_of_parallelism >= 2)
HasUnderlying == num_threads >= 1

Dynamic == dynamic_block_base > 0

\* num_of_blocks of the dynamic policy
NumOfBlocks == DegreeOfParallelism(FALSE) * dynamic_block_base

\* base_block_size of the dynamic policy
BaseBlockSize(n) == Max(1, LLRound(n, NumOfBlocks))

\* a scheduler that claims single iterations whatever block size it was given
CounterBlockOne(n, b) == 1

\* the block size the LoopCounter is built with and the first claims use
CounterBlock(n, b) == IF Dynamic THEN BaseBlockSize(n) ELSE b

\* the number of work items handed to RunInParallel
NumWorkItems(n, b) ==
  IF Dynamic THEN Min(num_threads + 1, NumOfBlocks)
  ELSE Min(num_threads + 1, n \div b)

\* a dispatch that never looks at the thread's current section
RouteIgnoringSection(nthreads, cps) ==
  IF nthreads >= 1 THEN "RunInParallel" ELSE "inline"

\* ThreadPool::RunInParallel on a pool of nthreads workers, called by a thread
\* whose current_parallel_section is cps: the way it reaches fn
Route(nthreads, cps) ==
  IF nthreads >= 1
  THEN IF cps # 0 THEN "RunInParallelSection" ELSE "RunInParallel"
  ELSE "inline"

\* ThreadPool::RunInParallel(fn, n, block_size): the indices fn runs with
RunInParallelItems(n) == IF HasUnderlying THEN 0 .. n - 1 ELSE {0}

\* ThreadPool::RunInParallel: the way it reaches fn
RunInParallelRoute == Route(num_threads, current_parallel_section)

\* a recomputation without the "std::max(1LL, ...)"
NextBlockNoFloor(b, todo) == IF b > 1 THEN LLRound(todo, NumOfBlocks) ELSE b

\* the block size a work item recomputes after a claim (dynamic policy)
NextBlock(b, todo) == IF b > 1 THEN Max(1, LLRound(todo, NumOfBlocks)) ELSE b

(***************************************************************************)
(* The outcomes of a call.                                                 *)
(***************************************************************************)
PoolUnchanged ==
  UNCHANGED <<num_threads, hybrid, dynamic_block_base, current_parallel_section,
              secVars, profVars, auxVars>>

Record(e, n, b, cid, one) ==
  /\ entry' = e
  /\ total' = n
  /\ block_size' = b
  /\ current_thread_id' = cid
  /\ cost_one' = one
  /\ PoolUnchanged

\* ORT_ENFORCE failed
Violation(e, n, b, cid, one) ==
  /\ Record(e, n, b, cid, one)
  /\ pc' = "violation"
  /\ UNCHANGED <<route, shards, lc_block, left, work, hits, ranges, calls,
                 loop_no, first_claim>>

\* returned without calling fn
ReturnOnly(e, n, b, cid, one) ==
  /\ Record(e, n, b, cid, one)
  /\ pc' = "done"
  /\ UNCHANGED <<route, shards, lc_block, left, work, hits, ranges, calls,
                 loop_no, first_claim>>

\* fn(0, n) on the calling thread, then return
Direct(e, n, b, cid, one) ==
  /\ Record(e, n, b, cid, one)
  /\ pc' = "done"
  /\ route' = "direct"
  /\ hits' = Deliver(hits, 0, n)
  /\ ranges' = ranges \cup {<<0, n>>}
  /\ calls' = calls + 1
  /\ UNCHANGED <<shards, lc_block, left, work, loop_no, first_claim>>

\* ParallelForFixedBlockSizeScheduling(n, b, fn) is called: its body runs next
CallScheduling(e, n, b, cid, one) ==
  /\ Record(e, n, b, cid, one)
  /\ pc' = "sched"
  /\ UNCHANGED <<route, shards, lc_block, left, work, hits, ranges, calls,
                 loop_no, first_claim>>

\* LoopCounter lc(...); run_work; RunInParallel(run_work, num_work_items, ...)
StartLoop(e, n, b) ==
  LET lc == LoopCounter(n, DegreeOfParallelism(FALSE), CounterBlock(n, b))
      S  == Cardinality(DOMAIN lc)
      items == RunInParallelItems(NumWorkItems(n, b))
  IN  /\ Record(e, n, b, -1, FALSE)
      /\ pc' = "loop"
      /\ route' = RunInParallelRoute
      /\ shards' = lc
      /\ lc_block' = CounterBlock(n, b)
      /\ left' = IF Dynamic THEN n ELSE 0
      /\ work' = [idx \in items |->
                    [pc |-> "check", home |-> GetHomeShard(idx, S),
                     shard |-> GetHomeShard(idx, S),
                     start |-> 0, end |-> 0, b |-> CounterBlock(n, b),
                     visited |-> 0]]
      /\ hits' = NoHits
      /\ ranges' = {}
      /\ calls' = 0
      /\ loop_no' = loop_no + 1
      /\ first_claim' = Append(first_claim,
                                [idx \in items |->
                                   [home |-> GetHomeShard(idx, S), first |-> -1]])

\* the body of ThreadPool::ParallelForFixedBlockSizeScheduling
FixedBlock(e, n, b) ==
  IF n <= 0 THEN ReturnOnly(e, n, b, -1, FALSE)
  ELSE IF n <= b THEN Direct(e, n, b, -1, FALSE)
  ELSE StartLoop(e, n, b)

\* the body of ThreadPool::ParallelFor(n, cost, f); c and one are what the cost
\* model makes of the cost: the cost-derived minimum block size and whether
\* CostModel::numThreads(n, cost, d_of_p) is 1
ParallelForBody(n, c, one, cid) ==
  IF ~(n >= 0) THEN Violation("ParallelFor", n, 0, cid, one)
  ELSE IF ~ShouldParallelizeLoop(n, 1, cid) \/ one
       THEN Direct("ParallelFor", n, 0, cid, one)
       ELSE CallScheduling("ParallelFor", n,
                           CalculateParallelForBlock(n, c, DegreeOfParallelism(FALSE)),
                           cid, one)

(***************************************************************************)
(* The entry points, called on an idle pool.                               *)
(***************************************************************************)
Totals == {n \in -1 .. MaxTotal : n * (num_threads + 1) <= MaxWork}

Blocks == 1 .. MaxBlock

\* CurrentThreadId(): -1 outside the pool, a worker's id inside it
CallerIds == IF HasUnderlying THEN {-1, 0} ELSE {-1}

CostBlocks == 0 .. MaxCostBlock

\* CostModel::numThreads is at most d_of_p
OneThreadAnswers == IF DegreeOfParallelism(FALSE) = 1 THEN {TRUE} ELSE BOOLEAN

ParallelFor ==
  /\ pc = "idle"
  /\ \E n \in Totals, c \in CostBlocks, one \in OneThreadAnswers, cid \in CallerIds :
       ParallelForBody(n, c, one, cid)

\* TryParallelFor(tp, total, cost, fn): fn(0, total) for a null tp, else
\* tp->ParallelFor(total, cost, fn)
TryParallelFor ==
  /\ pc = "idle"
  /\ \E tp_null \in BOOLEAN, n \in Totals, c \in CostBlocks,
        one \in OneThreadAnswers, cid \in CallerIds :
       IF tp_null
       THEN c = 0 /\ one /\ cid = -1 /\ Direct("TryParallelFor", n, 0, -1, FALSE)
       ELSE ParallelForBody(n, c, one, cid)

SimpleParallelFor ==
  /\ pc = "idle"
  /\ \E n \in Totals : CallScheduling("SimpleParallelFor", n, 1, -1, FALSE)

\* a caller's ParallelForFixedBlockSizeScheduling(total, block_size, fn)
CallFixedBlock ==
  /\ pc = "idle"
  /\ \E n \in Totals, b \in Blocks :
       CallScheduling("caller", n, b, -1, FALSE)

ParallelForFixedBlockSizeScheduling ==
  /\ pc = "sched"
  /\ FixedBlock("ParallelForFixedBlockSizeScheduling", total, block_size)

(***************************************************************************)
(* run_work(idx): LoopCounter::ClaimIterations in its two atomic accesses; *)
(* a successful claim is followed by the call of fn, which touches nothing *)
(* the other work items read, and, in the dynamic policy, by               *)
(* left.fetch_sub.                                                         *)
(***************************************************************************)
LoopFrame == /\ PoolUnchanged
             /\ UNCHANGED <<pc, entry, total, block_size, current_thread_id,
                            cost_one, route, lc_block, loop_no>>

\* "if (_shards[my_shard]._next < _shards[my_shard]._end)"; visited counts the
\* shards the current ClaimIterations call has looked at
ClaimCheck(idx) ==
  /\ pc = "loop"
  /\ idx \in DOMAIN work
  /\ work[idx].pc = "check"
  /\ LET w == work[idx]
         sh == shards[w.shard]
         v == [w EXCEPT !.visited = @ + 1]
     IN  work' = [work EXCEPT ![idx] =
                    IF ShardHasWork(sh.next, sh.end) THEN [v EXCEPT !.pc = "faa"]
                    ELSE NextShard(v)]
  /\ LoopFrame
  /\ UNCHANGED <<shards, left, hits, ranges, calls, first_claim>>

\* "temp_start = _next.fetch_add(block_size); if (temp_start < _end) ... return
\* true", and then "fn(my_iter_start, my_iter_end)"
ClaimFetchAdd(idx) ==
  /\ pc = "loop"
  /\ idx \in DOMAIN work
  /\ work[idx].pc = "faa"
  /\ LET w == work[idx]
         sh == shards[w.shard]
         temp_start == sh.next
         my_end == ClaimEnd(sh.end, temp_start, w.b)
     IN  /\ shards' = [shards EXCEPT ![w.shard].next = FetchAdd(sh.next, w.b)]
         /\ IF ClaimSucceeds(temp_start, sh.end)
            THEN /\ work' = [work EXCEPT ![idx] =
                               [w EXCEPT !.pc = IF Dynamic THEN "sub" ELSE "check",
                                         !.start = temp_start,
                                         !.end = my_end,
                                         !.visited = 0]]
                 /\ first_claim' =
                      [first_claim EXCEPT ![loop_no][idx].first =
                         IF @ = -1 THEN w.shard ELSE @]
                 /\ hits' = Deliver(hits, temp_start, my_end)
                 /\ ranges' = ranges \cup {<<temp_start, my_end>>}
                 /\ calls' = calls + 1
            ELSE /\ work' = [work EXCEPT ![idx] = NextShard(w)]
                 /\ UNCHANGED <<first_claim, hits, ranges, calls>>
  /\ LoopFrame
  /\ UNCHANGED left

\* "todo = left.fetch_sub(my_iter_end - my_iter_start); if (b > 1) b = ..."
FetchSub(idx) ==
  /\ pc = "loop"
  /\ idx \in DOMAIN work
  /\ work[idx].pc = "sub"
  /\ LET w == work[idx]
         todo == left
     IN  /\ left' = left - (w.end - w.start)
         /\ work' = [work EXCEPT ![idx] =
                       [w EXCEPT !.pc = "check", !.b = NextBlock(w.b, todo)]]
  /\ LoopFrame
  /\ UNCHANGED <<shards, hits, ranges, calls, first_claim>>

\* RunInParallel returns when every work item has returned
Join ==
  /\ pc = "loop"
  /\ \A idx \in DOMAIN work : work[idx].pc = "drained"
  /\ pc' = "done"
  /\ PoolUnchanged
  /\ UNCHANGED <<entry, total, block_size, current_thread_id, cost_one, route,
                 shards, lc_block, left, work, hits, ranges, calls, loop_no,
                 first_claim>>

WorkItems == 0 .. MaxThreads

InitCall ==
  /\ pc = "idle"
  /\ entry = "none"
  /\ total = 0
  /\ block_size = 0
  /\ current_thread_id = -1
  /\ cost_one = FALSE
  /\ route = "none"
  /\ shards = <<>>
  /\ lc_block = 0
  /\ left = 0
  /\ work = <<>>
  /\ hits = NoHits
  /\ ranges = {}
  /\ calls = 0
  /\ loop_no = 0
  /\ first_claim = <<>>

\* no ParallelSection has been constructed
InitSections ==
  /\ current_parallel_section = 0
  /\ handles = <<>>
  /\ handle_count = 0
  /\ ps_pool = <<>>
  /\ ps_events = <<>>
  /\ ends = {}
  /\ run_ps = {}
  /\ last_op = [op |-> "none"]

\* enabled_ of a profiler nobody has started (its initializer is declared with
\* the class)
InitialEnabled == FALSE

\* the ThreadPoolEvent values GetEventName names
Events == {"DISTRIBUTION", "DISTRIBUTION_ENQUEUE", "RUN", "WAIT", "WAIT_REVOKE"}

\* a thread's MainThreadStat when GetMainThreadStat first makes it
NewMainThreadStat ==
  [points |-> <<>>, events |-> [e \in Events |-> 0], blocks |-> <<>>]

Profilers == {"P", "Q"}

\* ThreadPoolProfiler::ThreadPoolProfiler for both pools
InitProfilers ==
  /\ enabled = [p \in Profilers |-> InitialEnabled]
  /\ stat = NewMainThreadStat
  /\ prof_last = [op |-> "none", p |-> "P", result |-> "ok"]
  /\ balance = 0
  /\ num_run = [p \in Profilers |-> 0]
  /\ unmatched = 0

\* no call of CalculateParallelForBlock is being followed
NoSizerCall ==
  [pc |-> "idle", n |-> 0, c |-> 0, P |-> 0, block_size |-> 0, max_block_size |-> 0,
   block_count |-> 0, prev_block_count |-> 0, mnum |-> 0, mden |-> 1, iterations |-> 0]

\* no LoopCounter is being constructed on its own
NoCounter ==
  [pc |-> "idle", num_iterations |-> 0, d_of_p |-> 1, block_size |-> 1,
   shards |-> <<>>]

InitAux == sizer = NoSizerCall /\ ctor = NoCounter

Init ==
  /\ num_threads \in 0 .. MaxThreads
  /\ hybrid \in BOOLEAN
  /\ dynamic_block_base \in 0 .. MaxDynBase
  /\ InitSections
  /\ InitProfilers
  /\ InitAux
  /\ InitCall

Next ==
  \/ ParallelFor
  \/ TryParallelFor
  \/ SimpleParallelFor
  \/ CallFixedBlock
  \/ ParallelForFixedBlockSizeScheduling
  \/ \E idx \in WorkItems : ClaimCheck(idx)
  \/ \E idx \in WorkItems : ClaimFetchAdd(idx)
  \/ \E idx \in WorkItems : FetchSub(idx)
  \/ Join

Spec == Init /\ [][Next]_vars

\* the steps of work item idx
RunWork(idx) == ClaimCheck(idx) \/ ClaimFetchAdd(idx) \/ FetchSub(idx)

\* the iteration counts of the loops followed to their return
LiveTotals == {n \in 0 .. MaxTotal : n * (num_threads + 1) <= MaxLiveWork}

\* a caller's ParallelForFixedBlockSizeScheduling(total, block_size, fn)
CallFixedBlockLive ==
  /\ pc = "idle"
  /\ \E n \in LiveTotals, b \in Blocks :
       CallScheduling("caller", n, b, -1, FALSE)

NextLive ==
  \/ CallFixedBlockLive
  \/ ParallelForFixedBlockSizeScheduling
  \/ \E idx \in WorkItems : RunWork(idx)
  \/ Join

\* The pool runs every work item it was handed on a thread of its own (a
\* worker or the caller), a called function runs, and RunInParallel returns
\* once the work items have.
Fairness ==
  /\ \A idx \in WorkItems : WF_vars(RunWork(idx))
  /\ WF_vars(ParallelForFixedBlockSizeScheduling)
  /\ WF_vars(Join)

SpecLive == Init /\ [][NextLive]_vars /\ Fairness

(***************************************************************************)
(* Loops of a pool with worker threads and dynamic_block_base_ > 0.        *)
(***************************************************************************)
DynTotals ==
  {n \in 0 .. MaxTotal :
     n * (num_threads + 1) * (num_threads + 1) * (num_threads + 1) <= MaxDynWork}

\* SimpleParallelFor(tp, total, fn) on such a pool
SimpleParallelForDyn ==
  /\ pc = "idle"
  /\ \E n \in DynTotals : CallScheduling("SimpleParallelFor", n, 1, -1, FALSE)

InitDyn ==
  /\ num_threads \in 1 .. MaxThreads
  /\ hybrid = FALSE
  /\ dynamic_block_base \in 1 .. MaxDynBase
  /\ InitSections
  /\ InitProfilers
  /\ InitAux
  /\ InitCall

NextDyn ==
  \/ SimpleParallelForDyn
  \/ ParallelForFixedBlockSizeScheduling
  \/ \E idx \in WorkItems : ClaimCheck(idx)
  \/ \E idx \in WorkItems : ClaimFetchAdd(idx)
  \/ \E idx \in WorkItems : FetchSub(idx)
  \/ Join

SpecDyn == InitDyn /\ [][NextDyn]_vars

(***************************************************************************)
(* ThreadPool::ParallelSection on one thread.  The thread uses this pool   *)
(* ("P"), another pool with workers ("Q"), a pool without worker threads   *)
(* ("Z") and the null ThreadPool* ("null").  A section state is named by   *)
(* an index into ps_pool / ps_events, 0 being an empty ps_.                *)
(***************************************************************************)
PoolNames == {"P", "Q", "Z"}

PoolPointers == PoolNames \cup {"null"}

\* NumThreads() of a pool
PoolThreads(tp) == CASE tp = "P" -> num_threads
                     [] tp = "Q" -> 1
                     [] OTHER -> 0

\* "tp && tp->underlying_threadpool_"
HasWorkerPool(tp) == tp # "null" /\ PoolThreads(tp) >= 1

\* a destructor that ends a section whether or not one is current
DestructorEndsAlways(cps) == TRUE

\* "if (current_parallel_section)" of the destructor
DestructorEnds(cps) == cps # 0

CallFrame == UNCHANGED <<num_threads, hybrid, dynamic_block_base, pc, entry, total,
                         block_size, current_thread_id, cost_one, route, shards,
                         lc_block, left, work, hits, ranges, calls, loop_no,
                         first_claim, profVars, auxVars>>

\* ParallelSection::ParallelSection(tp)
Construct(tp) ==
  /\ handle_count < MaxHandles
  /\ IF current_parallel_section # 0
     THEN \* ORT_ENFORCE(!current_parallel_section) fails: no handle is made
          /\ last_op' = [op |-> "construct", tp |-> tp, result |-> "violation",
                         alive |-> Len(handles), ps |-> 0]
          /\ UNCHANGED <<current_parallel_section, handles, handle_count, ps_pool,
                         ps_events, ends, run_ps>>
     ELSE LET id == handle_count + 1
              ps == Len(ps_pool) + 1
          IN  /\ handle_count' = id
              /\ IF HasWorkerPool(tp)
                 THEN \* ps_ = AllocateParallelSection(); StartParallelSection(*ps_)
                      /\ ps_pool' = Append(ps_pool, tp)
                      /\ ps_events' = Append(ps_events, <<"alloc", "start">>)
                      /\ handles' = Append(handles, [id |-> id, tp |-> tp, ps |-> ps])
                      /\ current_parallel_section' = id
                      /\ last_op' = [op |-> "construct", tp |-> tp, result |-> "ok",
                                     alive |-> Len(handles), ps |-> ps]
                 ELSE /\ handles' = Append(handles, [id |-> id, tp |-> tp, ps |-> 0])
                      /\ last_op' = [op |-> "construct", tp |-> tp, result |-> "ok",
                                     alive |-> Len(handles), ps |-> 0]
                      /\ UNCHANGED <<ps_pool, ps_events, current_parallel_section>>
              /\ run_ps' = {}
              /\ UNCHANGED ends
  /\ CallFrame

\* ParallelSection::~ParallelSection() of the youngest handle (handles are
\* scoped objects, destroyed in reverse order of construction)
Destroy ==
  /\ handles # <<>>
  /\ LET h == handles[Len(handles)]
     IN  /\ handles' = SubSeq(handles, 1, Len(handles) - 1)
         /\ IF DestructorEnds(current_parallel_section)
            THEN \* tp_->underlying_threadpool_->EndParallelSection(*ps_.get())
                 /\ ends' = ends \cup {<<h.tp, h.ps>>}
                 /\ ps_events' = IF h.ps # 0
                                 THEN [ps_events EXCEPT ![h.ps] = Append(@, "end")]
                                 ELSE ps_events
                 /\ current_parallel_section' = 0
                 /\ last_op' = [op |-> "destroy", tp |-> h.tp,
                                result |-> IF HasWorkerPool(h.tp) /\ h.ps # 0
                                           THEN "ended" ELSE "undefined",
                                alive |-> Len(handles), ps |-> h.ps]
            ELSE /\ last_op' = [op |-> "destroy", tp |-> h.tp, result |-> "nothing",
                                alive |-> Len(handles), ps |-> h.ps]
                 /\ UNCHANGED <<ends, ps_events, current_parallel_section>>
  /\ run_ps' = {}
  /\ UNCHANGED <<handle_count, ps_pool>>
  /\ CallFrame

\* the ps_ of the handle current_parallel_section points to
CurrentPs ==
  LET hs == {i \in 1 .. Len(handles) : handles[i].id = current_parallel_section}
  IN  IF hs = {} THEN 0 ELSE handles[CHOOSE i \in hs : TRUE].ps

\* ThreadPool::RunInParallel(fn, n, block_size) called on pool tp
RunInParallel(tp) ==
  /\ LET r == Route(PoolThreads(tp), current_parallel_section)
         ps == IF r = "RunInParallelSection" THEN CurrentPs ELSE 0
     IN  /\ last_op' = [op |-> "run", tp |-> tp, result |-> r,
                        alive |-> Len(handles), ps |-> ps]
         /\ run_ps' = IF r = "RunInParallelSection" THEN run_ps \cup {ps} ELSE run_ps
  /\ UNCHANGED <<current_parallel_section, handles, handle_count, ps_pool, ps_events,
                 ends>>
  /\ CallFrame

InitSec ==
  /\ num_threads = 1
  /\ hybrid = FALSE
  /\ dynamic_block_base = 0
  /\ InitSections
  /\ InitProfilers
  /\ InitAux
  /\ InitCall

NextSec ==
  \/ \E tp \in PoolPointers : Construct(tp)
  \/ Destroy
  \/ \E tp \in PoolNames : RunInParallel(tp)

SpecSec == InitSec /\ [][NextSec]_vars

(***************************************************************************)
(* Two back-to-back loops inside one parallel section on this pool.        *)
(***************************************************************************)
\* the same call again, after the first loop has returned
SecondLoop ==
  /\ pc = "done"
  /\ loop_no = 1
  /\ shards # <<>>
  /\ FixedBlock("ParallelForFixedBlockSizeScheduling", total, block_size)

\* a ParallelSection has been constructed on this pool, which has workers and
\* uses the static policy
InitAffinity ==
  /\ num_threads \in 1 .. MaxThreads
  /\ hybrid \in BOOLEAN
  /\ dynamic_block_base = 0
  /\ current_parallel_section = 1
  /\ handles = <<[id |-> 1, tp |-> "P", ps |-> 1]>>
  /\ handle_count = 1
  /\ ps_pool = <<"P">>
  /\ ps_events = << <<"alloc", "start">> >>
  /\ ends = {}
  /\ run_ps = {}
  /\ last_op = [op |-> "construct", tp |-> "P", result |-> "ok", alive |-> 0,
                ps |-> 1]
  /\ InitProfilers
  /\ InitAux
  /\ InitCall

NextAffinity ==
  \/ CallFixedBlock
  \/ ParallelForFixedBlockSizeScheduling
  \/ \E idx \in WorkItems : ClaimCheck(idx)
  \/ \E idx \in WorkItems : ClaimFetchAdd(idx)
  \/ Join
  \/ SecondLoop

SpecAffinity == InitAffinity /\ [][NextAffinity]_vars

(***************************************************************************)
(* ThreadPoolProfiler.  GetMainThreadStat returns the calling thread's one *)
(* thread_local MainThreadStat.  A timestamp is kept as a token: what      *)
(* Clock::now() returns is the environment's, and the microseconds elapsed *)
(* since a timestamp are drawn when they are logged.  core_ is not kept.   *)
(***************************************************************************)
Elapsed == 0 .. 1

LoggedBlockSizes == {1, 2}

\* what a call of the profiler by the main thread leaves alone
CallerFrame == UNCHANGED <<loopVars, secVars, num_run, auxVars>>

ProfFrame == CallerFrame /\ UNCHANGED unmatched

\* a Reset that does not look at the timestamp stack
ResetAllowedAlways(st) == TRUE

\* "ORT_ENFORCE(points_.empty(), ...)" of MainThreadStat::Reset
ResetAllowed(st) == st.points = <<>>

\* a LogEnd that does not look at the timestamp stack
LogEndAllowedAlways(st) == TRUE

\* "ORT_ENFORCE(!points_.empty(), ...)" of MainThreadStat::LogEnd and LogEndAndStart
LogEndAllowed(st) == st.points # <<>>

\* MainThreadStat::LogStart
StatLogStart(st) == [st EXCEPT !.points = Append(@, "now")]

\* MainThreadStat::LogBlockSize
StatLogBlockSize(st, bs) == [st EXCEPT !.blocks = Append(@, bs)]

\* MainThreadStat::LogEnd after its check, d microseconds after the last LogStart
StatLogEnd(st, evt, d) ==
  [st EXCEPT !.events[evt] = @ + d,
             !.points = SubSeq(@, 1, Len(@) - 1)]

\* a LogEndAndStart that drops the timestamp it should replace
StatLogEndAndStartPops(st, evt, d) ==
  [st EXCEPT !.events[evt] = @ + d,
             !.points = SubSeq(@, 1, Len(@) - 1)]

\* MainThreadStat::LogEndAndStart after its check
StatLogEndAndStart(st, evt, d) ==
  [st EXCEPT !.events[evt] = @ + d,
             !.points = [@ EXCEPT ![Len(@)] = "now"]]

\* MainThreadStat::Reset after its check
StatReset(st) ==
  [st EXCEPT !.blocks = <<>>, !.events = [e \in Events |-> 0]]

\* ThreadPoolProfiler::GetMainThreadStat called through profiler p: the
\* function's one static thread_local MainThreadStat of the calling thread
GetMainThreadStat(p) == stat

Called(op, p, result) == prof_last' = [op |-> op, p |-> p, result |-> result]

\* ThreadPoolProfiler::Start
Start(p) ==
  /\ enabled' = [enabled EXCEPT ![p] = TRUE]
  /\ Called("Start", p, "ok")
  /\ UNCHANGED <<stat, balance>>
  /\ ProfFrame

\* ThreadPoolProfiler::Stop
Stop(p) ==
  /\ IF ~enabled[p]
     THEN Called("Stop", p, "violation") /\ UNCHANGED stat
     ELSE IF ~ResetAllowed(stat)
          THEN Called("Stop", p, "violation") /\ UNCHANGED stat
          ELSE Called("Stop", p, "ok") /\ stat' = StatReset(stat)
  /\ UNCHANGED <<enabled, balance>>
  /\ ProfFrame

\* ThreadPoolProfiler::LogStart
LogStartCall(p) ==
  /\ IF enabled[p]
     THEN /\ Len(stat.points) < MaxDepth
          /\ stat' = StatLogStart(stat)
          /\ balance' = balance + 1
          /\ Called("LogStart", p, "ok")
     ELSE UNCHANGED <<stat, balance>> /\ Called("LogStart", p, "disabled")
  /\ UNCHANGED enabled

LogStart(p) == LogStartCall(p) /\ ProfFrame

\* ThreadPoolProfiler::LogEnd
LogEndCall(p, evt, d) ==
  /\ IF enabled[p]
     THEN IF LogEndAllowed(stat)
          THEN /\ stat.events[evt] + d <= MaxMicros
               /\ stat' = StatLogEnd(stat, evt, d)
               /\ balance' = balance - 1
               /\ Called("LogEnd", p, "ok")
          ELSE UNCHANGED <<stat, balance>> /\ Called("LogEnd", p, "violation")
     ELSE UNCHANGED <<stat, balance>> /\ Called("LogEnd", p, "disabled")
  /\ UNCHANGED enabled

LogEnd(p, evt, d) == LogEndCall(p, evt, d) /\ ProfFrame

\* ThreadPoolProfiler::LogEndAndStart
LogEndAndStartCall(p, evt, d) ==
  /\ IF enabled[p]
     THEN IF LogEndAllowed(stat)
          THEN /\ stat.events[evt] + d <= MaxMicros
               /\ stat' = StatLogEndAndStart(stat, evt, d)
               /\ Called("LogEndAndStart", p, "ok")
          ELSE UNCHANGED stat /\ Called("LogEndAndStart", p, "violation")
     ELSE UNCHANGED stat /\ Called("LogEndAndStart", p, "disabled")
  /\ UNCHANGED <<enabled, balance>>

LogEndAndStart(p, evt, d) == LogEndAndStartCall(p, evt, d) /\ ProfFrame

\* ThreadPoolProfiler::LogCoreAndBlock
LogCoreAndBlock(p, bs) ==
  /\ IF enabled[p]
     THEN /\ Len(stat.blocks) < MaxLogged
          /\ stat' = StatLogBlockSize(stat, bs)
          /\ Called("LogCoreAndBlock", p, "ok")
     ELSE UNCHANGED stat /\ Called("LogCoreAndBlock", p, "disabled")
  /\ UNCHANGED <<enabled, balance>>
  /\ ProfFrame

\* ThreadPoolProfiler::LogStartAndCoreAndBlock: its last step is the stat's
\* LogStart
LogStartAndCoreAndBlock(p, bs) ==
  /\ IF enabled[p]
     THEN /\ Len(stat.blocks) < MaxLogged
          /\ Len(stat.points) < MaxDepth
          /\ stat' = StatLogStart(StatLogBlockSize(stat, bs))
          /\ balance' = balance + 1
          /\ Called("LogStartAndCoreAndBlock", p, "ok")
     ELSE UNCHANGED <<stat, balance>> /\ Called("LogStartAndCoreAndBlock", p, "disabled")
  /\ UNCHANGED enabled
  /\ ProfFrame

\* ThreadPoolProfiler::LogRun(0), called by the pool's first worker thread
LogRun(p) ==
  /\ IF enabled[p]
     THEN /\ num_run[p] < MaxRuns
          /\ num_run' = [num_run EXCEPT ![p] = @ + 1]
          /\ Called("LogRun", p, "ok")
     ELSE UNCHANGED num_run /\ Called("LogRun", p, "disabled")
  /\ UNCHANGED <<enabled, stat, balance, unmatched, loopVars, secVars, auxVars>>

InitProf ==
  /\ num_threads = 1
  /\ hybrid = FALSE
  /\ dynamic_block_base = 0
  /\ InitSections
  /\ InitProfilers
  /\ InitAux
  /\ InitCall

NextProf ==
  \/ \E p \in Profilers : Start(p)
  \/ \E p \in Profilers : Stop(p)
  \/ \E p \in Profilers : LogStart(p)
  \/ \E p \in Profilers, evt \in Events, d \in Elapsed : LogEnd(p, evt, d)
  \/ \E p \in Profilers, evt \in Events, d \in Elapsed : LogEndAndStart(p, evt, d)
  \/ \E p \in Profilers, bs \in LoggedBlockSizes : LogCoreAndBlock(p, bs)
  \/ \E p \in Profilers, bs \in LoggedBlockSizes : LogStartAndCoreAndBlock(p, bs)

SpecProf == InitProf /\ [][NextProf]_vars

\* the main thread's calls together with a worker thread's LogRun
NextFlag ==
  \/ NextProf
  \/ \E p \in Profilers : LogRun(p)

SpecFlag == InitProf /\ [][NextFlag]_vars

(***************************************************************************)
(* One pool's profiler used by a thread whose log calls are balanced: it   *)
(* calls LogEnd or LogEndAndStart only after a LogStart call it has not    *)
(* yet followed by a LogEnd call.  Start is called at any moment, by this  *)
(* thread or another.                                                      *)
(***************************************************************************)
BalancedLogStart(p) ==
  /\ unmatched < MaxDepth
  /\ unmatched' = unmatched + 1
  /\ LogStartCall(p)
  /\ CallerFrame

BalancedLogEnd(p, evt, d) ==
  /\ unmatched > 0
  /\ unmatched' = unmatched - 1
  /\ LogEndCall(p, evt, d)
  /\ CallerFrame

BalancedLogEndAndStart(p, evt, d) ==
  /\ unmatched > 0
  /\ UNCHANGED unmatched
  /\ LogEndAndStartCall(p, evt, d)
  /\ CallerFrame

NextBalanced ==
  \/ Start("P")
  \/ BalancedLogStart("P")
  \/ \E evt \in Events, d \in Elapsed : BalancedLogEnd("P", evt, d)
  \/ \E evt \in Events, d \in Elapsed : BalancedLogEndAndStart("P", evt, d)

SpecBalanced == InitProf /\ [][NextBalanced]_vars

(***************************************************************************)
(* CalculateParallelForBlock(n, cost, nullptr, num_threads), one loop       *)
(* iteration at a time.  c is static_cast<ptrdiff_t>(block_size_f).         *)
(***************************************************************************)
SizerFrame == UNCHANGED <<loopVars, secVars, profVars, ctor>>

\* coarser_block_size = divup(n, prev_block_count - 1)
CoarserBlockSize(n, prev_block_count) == DivUp(n, prev_block_count - 1)

\* block_size, max_block_size, block_count and max_efficiency before the loop
SizerBegin ==
  /\ sizer.pc = "called"
  /\ LET b0 == InitialBlock(sizer.n, sizer.c, sizer.P)
         block_count == DivUp(sizer.n, b0)
     IN  sizer' = [sizer EXCEPT !.pc = "loop",
                                !.block_size = b0,
                                !.max_block_size = MaxBlockSize(sizer.n, sizer.c, sizer.P),
                                !.block_count = block_count,
                                !.prev_block_count = block_count,
                                !.mnum = block_count,
                                !.mden = EffDen(block_count, sizer.P)]
  /\ SizerFrame

\* the loop's condition and one run of its body, or the return
SizerLoop ==
  /\ sizer.pc = "loop"
  /\ IF ~(sizer.mnum < sizer.mden /\ sizer.prev_block_count > 1)
     THEN sizer' = [sizer EXCEPT !.pc = "returned"]
     ELSE LET coarser_block_size == CoarserBlockSize(sizer.n, sizer.prev_block_count)
          IN  IF coarser_block_size > sizer.max_block_size
              THEN sizer' = [sizer EXCEPT !.pc = "returned"]
              ELSE LET coarser_block_count == DivUp(sizer.n, coarser_block_size)
                       cden == EffDen(coarser_block_count, sizer.P)
                       take == TakeCoarser(coarser_block_count, cden,
                                           sizer.mnum, sizer.mden)
                       better == take /\ sizer.mnum * cden < coarser_block_count * sizer.mden
                   IN  sizer' = [sizer EXCEPT
                                   !.prev_block_count = coarser_block_count,
                                   !.block_size = IF take THEN coarser_block_size ELSE @,
                                   !.block_count = IF take THEN coarser_block_count ELSE @,
                                   !.mnum = IF better THEN coarser_block_count ELSE @,
                                   !.mden = IF better THEN cden ELSE @,
                                   !.iterations = @ + 1]
  /\ SizerFrame

InitSizer ==
  /\ num_threads = 1
  /\ hybrid = FALSE
  /\ dynamic_block_base = 0
  /\ InitSections
  /\ InitProfilers
  /\ InitCall
  /\ \E n \in 1 .. MaxSizerN, c \in 0 .. MaxSizerCost, P \in 1 .. MaxSizerP :
       sizer = [NoSizerCall EXCEPT !.pc = "called", !.n = n, !.c = c, !.P = P]
  /\ ctor = NoCounter

NextSizer ==
  \/ SizerBegin
  \/ SizerLoop

SpecSizer == InitSizer /\ [][NextSizer]_vars

(***************************************************************************)
(* LoopCounter lc(num_iterations, d_of_p, block_size), on its own.         *)
(***************************************************************************)
ConstructCounter ==
  /\ ctor.pc = "called"
  /\ ctor' = [ctor EXCEPT !.pc = "built",
                          !.shards = LoopCounter(ctor.num_iterations, ctor.d_of_p,
                                                 ctor.block_size)]
  /\ UNCHANGED <<loopVars, secVars, profVars, sizer>>

InitCounter ==
  /\ num_threads = 1
  /\ hybrid = FALSE
  /\ dynamic_block_base = 0
  /\ InitSections
  /\ InitProfilers
  /\ InitCall
  /\ sizer = NoSizerCall
  /\ \E n \in 0 .. MaxCtorN, d \in 1 .. MaxCtorDofP, b \in 1 .. MaxCtorBlock :
       ctor = [NoCounter EXCEPT !.pc = "called", !.num_iterations = n,
                                !.d_of_p = d, !.block_size = b]

NextCounter == ConstructCounter

SpecCounter == InitCounter /\ [][NextCounter]_vars

(***************************************************************************)
(* Properties of the scheduler and its entry points.                       *)
(***************************************************************************)
Scheduled == entry = "ParallelForFixedBlockSizeScheduling"

Width(r) == r[2] - r[1]

Disjoint(r1, r2) == r1[2] <= r2[1] \/ r2[2] <= r1[1]

\* C1: when a fixed-block loop returns, the ranges delivered to fn are
\* non-empty, pairwise disjoint and their union is [0, N): every index below N
\* was delivered exactly once and nothing else was; SimpleParallelFor is such a
\* loop with block size 1, whose fn hands each index of a range to the caller's
\* function.
ExactCover ==
  /\ (pc = "sched" /\ entry = "SimpleParallelFor") => block_size = 1
  /\ (pc = "done" /\ Scheduled /\ total >= 0) =>
       /\ \A i \in 0 .. MaxTotal - 1 : hits[i] = IF i < total THEN 1 ELSE 0
       /\ \A r \in ranges : 0 <= r[1] /\ r[1] < r[2] /\ r[2] <= total
       /\ \A r1, r2 \in ranges : r1 # r2 => Disjoint(r1, r2)
       /\ calls = Cardinality(ranges)

\* a dynamic loop of three work items has returned after at least three
\* claims, one of them lost in a race (a shard's counter went past its end)
WitnessExactCover ==
  /\ pc = "done" /\ Scheduled
  /\ Dynamic
  /\ Cardinality(DOMAIN work) = 3
  /\ Cardinality(ranges) >= 3
  /\ \E s \in DOMAIN shards : shards[s].next > shards[s].end

NotWorthParallel ==
  \/ total <= 1
  \/ (current_thread_id = -1 /\ num_threads = 0)
  \/ (current_thread_id # -1 /\ num_threads = 1)

\* fn was invoked exactly once, with (0, N), by the entry point itself: no
\* counter was built and nothing was handed to RunInParallel
InvokedOnceInline ==
  /\ pc = "done"
  /\ calls = 1
  /\ ranges = {<<0, total>>}
  /\ route = "direct"
  /\ shards = <<>>
  /\ work = <<>>

\* C3 as stated: in both loop forms, if N <= B or ShouldParallelizeLoop(N, B)
\* is false, fn is invoked exactly once with (0, N) on the calling thread, no
\* counter is created and nothing is dispatched.
ShortLoopBypassOriginal ==
  /\ (entry = "ParallelFor" /\ pc \in {"done", "sched"} /\ NotWorthParallel)
       => InvokedOnceInline
  /\ (Scheduled /\ total >= 0 /\
        (\/ total <= block_size
         \/ (current_thread_id = -1 /\ num_threads = 0)
         \/ (current_thread_id # -1 /\ num_threads = 1)))
       => InvokedOnceInline

\* C3 amended: ParallelFor with N >= 1 invokes fn exactly once with (0, N) on
\* the calling thread, without a counter or a dispatch, if ShouldParallelizeLoop(N, 1)
\* is false or the cost model asks for one thread; the fixed-block form (also
\* when ParallelFor delegates to it with the block size it computed) does so if
\* 1 <= N <= B, does not invoke fn if N = 0, and for N > B builds the counter
\* and calls RunInParallel whatever ShouldParallelizeLoop would say.
ShortLoopBypass ==
  /\ (entry = "ParallelFor" /\ pc \in {"done", "sched"} /\ total >= 1 /\
        (NotWorthParallel \/ cost_one))
       => InvokedOnceInline
  /\ (Scheduled /\ 1 <= total /\ total <= block_size) => InvokedOnceInline
  /\ (Scheduled /\ total = 0) =>
       pc = "done" /\ calls = 0 /\ ranges = {} /\ route = "none" /\ shards = <<>>
  /\ (Scheduled /\ total > block_size) =>
       /\ pc \in {"loop", "done"}
       /\ shards # <<>>
       /\ route \in {"inline", "RunInParallel", "RunInParallelSection"}

\* ParallelFor was called from inside a pool of one worker with more than one
\* iteration and a cost model asking for several threads, and ran fn inline
WitnessShortLoopBypass ==
  /\ entry = "ParallelFor" /\ pc = "done"
  /\ total > 1 /\ current_thread_id # -1 /\ num_threads = 1 /\ ~cost_one
  /\ calls = 1

\* C4: through every entry point each invocation of fn receives (first, last)
\* with 0 <= first < last <= N, and for N = 0 fn is never invoked.
FnArgumentContract ==
  /\ \A r \in ranges : 0 <= r[1] /\ r[1] < r[2] /\ r[2] <= total
  /\ (total = 0 /\ pc = "done") => calls = 0

\* C5: a loop call with N < 0 is rejected with a contract violation through
\* either loop form and through TryParallelFor with a null pool, and fn is not
\* invoked.
NegativeTotalRejected ==
  (pc \in {"loop", "done", "violation"} /\ total < 0) =>
     pc = "violation" /\ calls = 0

(***************************************************************************)
(* Properties of parallel sections.                                        *)
(***************************************************************************)
\* C6: constructing a ParallelSection while another handle of the thread is
\* alive is rejected with a contract violation, whatever pools the two handles
\* are built on, and starts no pool section.
SectionNonNesting ==
  (last_op.op = "construct" /\ last_op.alive > 0) =>
     last_op.result = "violation" /\ last_op.ps = 0

\* C7 as stated: with a section active on the thread every RunInParallel goes
\* through RunInParallelSection with that section's state, and with none
\* active through the plain RunInParallel.
DispatchCouplingOriginal ==
  last_op.op = "run" =>
     IF current_parallel_section # 0
     THEN last_op.result = "RunInParallelSection" /\ last_op.ps = CurrentPs
     ELSE last_op.result = "RunInParallel"

\* C7 amended: on a pool with worker threads a RunInParallel goes through
\* RunInParallelSection with the state of the thread's active section, and
\* through the plain RunInParallel when no section is active; on a pool without
\* worker threads it runs fn(0) inline and dispatches nothing, section or not;
\* every dispatch of one section passes the same, still started, state.
DispatchCoupling ==
  /\ last_op.op = "run" =>
       IF PoolThreads(last_op.tp) >= 1
       THEN IF current_parallel_section # 0
            THEN /\ last_op.result = "RunInParallelSection"
                 /\ last_op.ps # 0
                 /\ \E i \in 1 .. Len(handles) :
                      /\ handles[i].id = current_parallel_section
                      /\ handles[i].ps = last_op.ps
            ELSE last_op.result = "RunInParallel" /\ last_op.ps = 0
       ELSE last_op.result = "inline" /\ last_op.ps = 0
  /\ \A ps \in run_ps :
       /\ \E i \in 1 .. Len(handles) :
            handles[i].id = current_parallel_section /\ handles[i].ps = ps
       /\ ps_events[ps] = <<"alloc", "start">>

\* inside a section on this pool, a loop is dispatched on this pool after one
\* was run on the pool without workers
WitnessDispatchCoupling ==
  /\ last_op.op = "run" /\ last_op.tp = "P"
  /\ last_op.result = "RunInParallelSection"
  /\ run_ps = {last_op.ps}
  /\ ps_pool[last_op.ps] = "P"

\* C8: for scoped handles, a handle constructed on a pool with workers causes
\* one AllocateParallelSection followed by one StartParallelSection, its
\* destruction one EndParallelSection on that state at the pool that started
\* it; a handle that started no section never ends one; after a destruction the
\* thread's current-section marker is null.
SectionLifecycle ==
  /\ \A ps \in DOMAIN ps_events :
       /\ HasWorkerPool(ps_pool[ps])
       /\ LET owners == {i \in 1 .. Len(handles) : handles[i].ps = ps}
          IN  /\ Cardinality(owners) <= 1
              /\ ps_events[ps] = IF owners # {} THEN <<"alloc", "start">>
                                 ELSE <<"alloc", "start", "end">>
  /\ \A i \in 1 .. Len(handles) :
       IF HasWorkerPool(handles[i].tp)
       THEN /\ handles[i].ps \in DOMAIN ps_events
            /\ ps_pool[handles[i].ps] = handles[i].tp
       ELSE handles[i].ps = 0
  /\ \A e \in ends : e[2] \in DOMAIN ps_events /\ ps_pool[e[2]] = e[1]
  /\ Cardinality(ends) = Cardinality({ps \in DOMAIN ps_events :
                                        ps_events[ps] = <<"alloc", "start", "end">>})
  /\ (last_op.op = "construct" /\ last_op.result = "ok") =>
       IF HasWorkerPool(last_op.tp)
       THEN last_op.ps = Len(ps_events) /\ current_parallel_section = handle_count
       ELSE last_op.ps = 0
  /\ last_op.op = "destroy" =>
       /\ current_parallel_section = 0
       /\ last_op.result = IF last_op.ps # 0 THEN "ended" ELSE "nothing"

\* a handle on the null pool is alive, and two sections were started and ended
\* on pools with workers while it was
WitnessSectionLifecycle ==
  /\ last_op.op = "destroy" /\ last_op.result = "ended"
  /\ Len(handles) = 1 /\ handles[1].tp = "null"
  /\ Len(ps_events) = 2
  /\ Cardinality(ends) = 2

(***************************************************************************)
(* Affinity.                                                               *)
(***************************************************************************)
\* C9 as stated: in two back-to-back loops with the same N, B and d_of_p in one
\* section, a work item has the same home shard in both loops and makes its
\* first successful claim from the same shard in both.
AffinityOriginal ==
  loop_no = 2 =>
    \A idx \in DOMAIN first_claim[2] :
      /\ first_claim[1][idx].home = first_claim[2][idx].home
      /\ (first_claim[1][idx].first # -1 /\ first_claim[2][idx].first # -1) =>
           first_claim[1][idx].first = first_claim[2][idx].first

\* C9 amended: in both loops the work item of a given id has the same home
\* shard, id mod S, and starts claiming there; its first successful claim is
\* from its home shard unless the home shard was already exhausted, so the
\* shard of the first successful claim may differ between the loops.
Affinity ==
  /\ loop_no >= 1 =>
       \A idx \in DOMAIN first_claim[loop_no] :
         /\ first_claim[loop_no][idx].home = idx % NumShards
         /\ work[idx].home = idx % NumShards
         /\ first_claim[loop_no][idx].first \notin {-1, idx % NumShards} =>
              shards[idx % NumShards].next >= shards[idx % NumShards].end
  /\ loop_no = 2 =>
       /\ DOMAIN first_claim[1] = DOMAIN first_claim[2]
       /\ \A idx \in DOMAIN first_claim[2] :
            first_claim[1][idx].home = first_claim[2][idx].home

\* both loops have returned and some work item made its first successful claim
\* from different shards in the two
WitnessAffinity ==
  /\ loop_no = 2 /\ pc = "done"
  /\ current_parallel_section # 0 /\ route = "RunInParallelSection"
  /\ \E idx \in DOMAIN first_claim[2] :
       /\ first_claim[1][idx].first # -1
       /\ first_claim[2][idx].first # -1
       /\ first_claim[1][idx].first # first_claim[2][idx].first

(***************************************************************************)
(* Properties of the profiler.                                             *)
(***************************************************************************)
\* C10: with profiling enabled, LogEnd and LogEndAndStart on an empty timestamp
\* stack and Stop on a non-empty one signal a contract violation, so does Stop
\* on a profiler that was never started, and a call that signals a violation
\* leaves the timestamp stack, the event totals and the block-size list (and
\* the enabled flags) as they were.
ProfilerViolations ==
  [][LET call == prof_last'
     IN  /\ (/\ call.op \in {"LogEnd", "LogEndAndStart"}
             /\ enabled[call.p]
             /\ stat.points = <<>>) => call.result = "violation"
         /\ (/\ call.op = "Stop"
             /\ (~enabled[call.p] \/ stat.points # <<>>)) => call.result = "violation"
         /\ call.result = "violation" =>
              /\ stat' = stat
              /\ enabled' = enabled
              /\ \/ ~enabled[call.p] /\ call.op = "Stop"
                 \/ stat.points = <<>> /\ call.op \in {"LogEnd", "LogEndAndStart"}
                 \/ stat.points # <<>> /\ call.op = "Stop"
    ]_vars

\* Stop was refused on a started profiler whose thread holds an open timestamp,
\* logged block sizes and a non-zero event total
WitnessProfilerViolations ==
  /\ prof_last.op = "Stop" /\ prof_last.result = "violation"
  /\ enabled[prof_last.p]
  /\ stat.points # <<>>
  /\ stat.blocks # <<>>
  /\ \E e \in Events : stat.events[e] > 0

\* C11: the depth of the thread's timestamp stack equals the number of LogStart
\* calls minus the number of LogEnd calls that the thread made through an
\* enabled profiler and that returned normally (LogStartAndCoreAndBlock ends in
\* a LogStart, LogEndAndStart counts for nothing); after a Stop that returned
\* normally the stack and the block-size list are empty and every event total
\* is zero.
ProfilerPairing ==
  /\ Len(stat.points) = balance
  /\ (prof_last.op = "Stop" /\ prof_last.result = "ok") =>
       /\ stat.points = <<>>
       /\ stat.blocks = <<>>
       /\ \A e \in Events : stat.events[e] = 0
       /\ balance = 0
  /\ num_run = [p \in Profilers |-> 0]

\* a LogEndAndStart has returned normally with one timestamp open, after block
\* sizes and elapsed time were logged
WitnessProfilerPairing ==
  /\ prof_last.op = "LogEndAndStart" /\ prof_last.result = "ok"
  /\ balance = 1
  /\ stat.blocks # <<>>
  /\ \E e \in Events : stat.events[e] > 0

LogCalls == {"LogStart", "LogEnd", "LogEndAndStart", "LogCoreAndBlock",
             "LogStartAndCoreAndBlock", "LogRun"}

\* C12: Start sets the profiler's enabled flag and a Stop that returns clears
\* it, so that the profiler is enabled exactly between a Start and the next
\* Stop; a log call made while the flag is clear changes no statistic and
\* signals nothing, and only such a call is skipped.
ProfilingFlag ==
  [][LET call == prof_last'
     IN  /\ call.op = "Start" => enabled'[call.p]
         /\ (call.op = "Stop" /\ call.result = "ok") => ~enabled'[call.p]
         /\ (call.op \in LogCalls /\ ~enabled[call.p]) =>
              /\ call.result = "disabled"
              /\ stat' = stat
              /\ num_run' = num_run
         /\ (call.op \in LogCalls /\ call.result = "disabled") => ~enabled[call.p]
    ]_vars

(***************************************************************************)
(* Properties of the block sizer.                                          *)
(***************************************************************************)
SizerB0 == Min(sizer.n, Max(DivUp(sizer.n, 4 * sizer.P), sizer.c))

SizerBmax == Min(sizer.n, 2 * SizerB0)

\* what holds of the sizer's locals in its loop and at its return
SizerRangeInv ==
  /\ sizer.pc \in {"loop", "returned"} =>
       /\ 1 <= sizer.block_size /\ sizer.block_size <= sizer.n
       /\ SizerB0 <= sizer.block_size /\ sizer.block_size <= SizerBmax
       /\ sizer.max_block_size = SizerBmax
       /\ sizer.block_count = DivUp(sizer.n, sizer.block_size)
       /\ 1 <= sizer.prev_block_count
       /\ sizer.prev_block_count <= sizer.block_count
       /\ sizer.iterations <= sizer.n
  /\ sizer.pc = "returned" =>
       sizer.block_size = CalculateParallelForBlock(sizer.n, sizer.c, sizer.P)

\* C13: for n >= 1, P >= 1, c >= 0 and no alignment function,
\* CalculateParallelForBlock returns, after at most n iterations of its loop, a
\* B with 1 <= B <= n and B0 <= B <= B_max, where B0 = min(n, max(ceil(n/(4P)), c))
\* and B_max = min(n, 2 * B0); every iteration of the growth loop strictly
\* lowers the number of blocks and never lowers the block size.
BlockSizerRange ==
  /\ []SizerRangeInv
  /\ [][(sizer.pc = "loop" /\ sizer'.pc = "loop") =>
          /\ sizer'.prev_block_count < sizer.prev_block_count
          /\ sizer'.prev_block_count = DivUp(sizer.n, CoarserBlockSize(sizer.n, sizer.prev_block_count))
          /\ sizer'.block_size >= sizer.block_size]_vars

\* the sizer has returned a block size strictly between B0 and B_max after two
\* iterations of its loop
WitnessBlockSizerRange ==
  /\ sizer.pc = "returned"
  /\ sizer.iterations >= 2
  /\ SizerB0 < sizer.block_size /\ sizer.block_size < SizerBmax

(***************************************************************************)
(* Progress of a loop.                                                     *)
(***************************************************************************)
\* C14: under fair scheduling of the work items every dispatched loop
\* eventually returns, with every index below N delivered; a ClaimIterations
\* call looks at no more than S shards, whatever the other work items do, and
\* the claims made in a loop number at most N.
RunToCompletion ==
  /\ [](pc \in {"loop", "done"} /\ shards # <<>> =>
          /\ \A idx \in DOMAIN work : work[idx].visited <= NumShards
          /\ calls <= total)
  /\ (pc = "loop") ~>
       (pc = "done" /\ \A i \in 0 .. MaxTotal - 1 : hits[i] = IF i < total THEN 1 ELSE 0)

\* a loop over three shards has returned; the last ClaimIterations call of one
\* work item looked at all three shards, that of another at fewer
WitnessRunToCompletion ==
  /\ pc = "done" /\ Scheduled /\ NumShards = 3
  /\ \E i, j \in DOMAIN work :
       work[i].visited = 3 /\ work[j].visited < 3 /\ work[j].visited > 0

(***************************************************************************)
(* Properties of the loop counter.                                         *)
(***************************************************************************)
\* the first iteration of shard s, as the constructor laid it out
ShardStart(s) ==
  s * (((total \div lc_block) \div NumShards) * lc_block)

\* work item w has just been returned a claim: its cursor is where it claimed
JustClaimed(w) ==
  w.pc \in {"check", "sub"} /\ w.visited = 0 /\ (w.start # 0 \/ w.end # 0)

\* C15: a successful ClaimIterations call with block size b returns (start, end)
\* with 1 <= end - start <= b and shard[C].start <= start < end <= shard[C].end
\* for the shard C its cursor points to on return; no range given to fn crosses
\* a shard boundary.
ClaimResultBounds ==
  (pc \in {"loop", "done"} /\ shards # <<>>) =>
    /\ \A idx \in DOMAIN work :
         LET w == work[idx]
         IN  JustClaimed(w) =>
               /\ 1 <= w.end - w.start
               /\ (w.pc = "sub" \/ ~Dynamic) => w.end - w.start <= w.b
               /\ w.b >= 1
               /\ ShardStart(w.shard) <= w.start
               /\ w.end <= shards[w.shard].end
               /\ <<w.start, w.end>> \in ranges
    /\ \A r \in ranges :
         \E sh \in DOMAIN shards :
           ShardStart(sh) <= r[1] /\ r[1] < r[2] /\ r[2] <= shards[sh].end

\* a work item has just claimed, from a shard that is not its home, a block
\* shorter than its block size, ending at the end of that shard
WitnessClaimResultBounds ==
  /\ pc = "loop"
  /\ \E idx \in DOMAIN work :
       LET w == work[idx]
       IN  /\ JustClaimed(w)
           /\ w.shard # w.home
           /\ w.end - w.start < w.b
           /\ w.end = shards[w.shard].end
           /\ w.start > ShardStart(w.shard)

InShard(r, sh) == ShardStart(sh) <= r[1] /\ r[1] < shards[sh].end

\* C17: during a loop no shard's next ever decreases, so that a shard once
\* exhausted (next >= end) stays exhausted; and the start of every successful
\* claim is greater than the start of every earlier claim from the same shard,
\* by the same or by another work item.
MonotoneCounter ==
  [][(pc = "loop" /\ pc' \in {"loop", "done"}) =>
       /\ \A sh \in DOMAIN shards :
            /\ shards'[sh].next >= shards[sh].next
            /\ shards'[sh].end = shards[sh].end
            /\ shards[sh].next >= shards[sh].end => shards'[sh].next >= shards'[sh].end
       /\ calls' = calls + 1 =>
            /\ Cardinality(ranges' \ ranges) = 1
            /\ \A new \in ranges' \ ranges, old \in ranges, sh \in DOMAIN shards :
                 (InShard(new, sh) /\ InShard(old, sh)) => old[1] < new[1]
    ]_vars

\* two work items hold claims from the same shard, the later one from past the
\* shard's first block, and another shard is exhausted
WitnessMonotoneCounter ==
  /\ pc = "loop"
  /\ \E i, j \in DOMAIN work :
       /\ i # j
       /\ JustClaimed(work[i]) /\ JustClaimed(work[j])
       /\ work[i].shard = work[j].shard
       /\ work[i].start < work[j].start
  /\ \E sh \in DOMAIN shards : shards[sh].next > shards[sh].end

\* C18: once ClaimIterations has returned false to every work item of a loop,
\* next >= end holds for every shard, also for the shards that are the home of
\* no work item and under the dynamic policy.
DrainedPostcondition ==
  (/\ pc \in {"loop", "done"}
   /\ shards # <<>>
   /\ \A idx \in DOMAIN work : work[idx].pc = "drained") =>
     \A sh \in 0 .. NumShards - 1 : shards[sh].next >= shards[sh].end

\* a dynamic loop with more shards than work items has returned
WitnessDrainedPostcondition ==
  /\ pc = "done" /\ Scheduled /\ Dynamic
  /\ NumShards > Cardinality(DOMAIN work)
  /\ Cardinality(DOMAIN work) >= 2
  /\ calls >= 3

\* what shard sh's counter has been advanced beyond its end
Overshoot(sh) == Max(0, shards[sh].next - shards[sh].end)

RECURSIVE OvershootUpTo(_)
OvershootUpTo(sh) == IF sh < 0 THEN 0 ELSE Overshoot(sh) + OvershootUpTo(sh - 1)

TotalOvershoot == OvershootUpTo(NumShards - 1)

\* C19 as stated: in every state of a loop with S shards and block size B the
\* sum over the shards of max(0, next - end) is at most S * (B - 1).
OvershootBoundOriginal ==
  (pc \in {"loop", "done"} /\ shards # <<>>) =>
     TotalOvershoot <= NumShards * (lc_block - 1)

\* C19 amended: with W work items and (largest) block size B, in every state
\* of a loop every shard's overshoot is at most W * B - 1, hence the total at
\* most S * (W * B - 1); and no range given to fn from a shard reaches beyond
\* that shard's end.
OvershootBound ==
  (pc \in {"loop", "done"} /\ shards # <<>>) =>
     LET W == Cardinality(DOMAIN work)
     IN  /\ \A sh \in DOMAIN shards : Overshoot(sh) <= W * lc_block - 1
         /\ TotalOvershoot <= NumShards * (W * lc_block - 1)
         /\ \A idx \in DOMAIN work : work[idx].b <= lc_block
         /\ \A r \in ranges :
              \E sh \in DOMAIN shards : InShard(r, sh) /\ r[2] <= shards[sh].end

\* all three work items of a loop raced on one shard: its counter stands
\* W * B - 1 beyond its end, more than S * (B - 1)
WitnessOvershootBound ==
  /\ pc \in {"loop", "done"} /\ shards # <<>>
  /\ Cardinality(DOMAIN work) = 3
  /\ \E sh \in DOMAIN shards : Overshoot(sh) = 3 * lc_block - 1
  /\ TotalOvershoot > NumShards * (lc_block - 1)

RECURSIVE WidthsUpTo(_)
WidthsUpTo(sh) ==
  IF sh < 0 THEN 0
  ELSE (ctor.shards[sh].end - ctor.shards[sh].next) + WidthsUpTo(sh - 1)

\* C20: for N >= 0, B >= 1, d_of_p >= 1 the constructed counter has
\* S = min(max(1, floor(N/B)), min(8, d_of_p)) shards; shard s < S-1 covers
\* [s*I, (s+1)*I) with I = floor(floor(N/B)/S) * B and shard S-1 covers
\* [(S-1)*I, N); the shards are contiguous and disjoint, their widths sum to N,
\* and when N >= B every shard holds at least one full block.
CounterConstruction ==
  ctor.pc = "built" =>
    LET N == ctor.num_iterations
        B == ctor.block_size
        S == Min(Max(1, N \div B), Min(8, ctor.d_of_p))
        I == ((N \div B) \div S) * B
        sh == ctor.shards
    IN  /\ DOMAIN sh = 0 .. S - 1
        /\ \A s \in 0 .. S - 2 : sh[s].next = s * I /\ sh[s].end = (s + 1) * I
        /\ sh[S - 1].next = (S - 1) * I /\ sh[S - 1].end = N
        /\ sh[0].next = 0
        /\ \A s \in 1 .. S - 1 : sh[s].next = sh[s - 1].end
        /\ \A s \in 0 .. S - 1 : sh[s].next <= sh[s].end
        /\ WidthsUpTo(S - 1) = N
        /\ N >= B => \A s \in 0 .. S - 1 : sh[s].end - sh[s].next >= B

\* a counter of MAX_SHARDS shards was built for a pool of more threads than
\* that, its last shard larger than the others
WitnessCounterConstruction ==
  /\ ctor.pc = "built"
  /\ ctor.d_of_p > 8
  /\ DOMAIN ctor.shards = 0 .. 7
  /\ ctor.shards[7].end - ctor.shards[7].next > ctor.shards[0].end

\* the block sizes of the work items of a dynamic loop are within
\* 1 .. max(1, round(N/R))
ShrinkRangeInv ==
  (Dynamic /\ pc \in {"loop", "done"} /\ work # <<>>) =>
    /\ lc_block = Max(1, LLRound(total, NumOfBlocks))
    /\ \A idx \in DOMAIN work : 1 <= work[idx].b /\ work[idx].b <= lc_block

\* C21: under the dynamic policy with R = d_of_p * dynamic_block_base, the block
\* size a worker passes to its successive claims is never below 1, never above
\* the initial block size max(1, round(N/R)), is non-increasing from one claim
\* of that worker to its next, and once it is 1 it stays 1.
DynamicBlockShrinking ==
  /\ []ShrinkRangeInv
  /\ [][(Dynamic /\ pc = "loop" /\ loop_no' = loop_no) =>
          \A idx \in DOMAIN work :
            /\ idx \in DOMAIN work'
            /\ work'[idx].b <= work[idx].b
            /\ (work[idx].b = 1 => work'[idx].b = 1)]_vars

\* a worker of a dynamic loop is about to claim with a block size below the
\* initial one and above 1, while another work item still has the initial one
WitnessDynamicBlockShrinking ==
  /\ Dynamic
  /\ pc = "loop"
  /\ lc_block >= 3
  /\ \E i, j \in DOMAIN work :
       /\ 1 < work[i].b /\ work[i].b < lc_block
       /\ work[j].b = lc_block
       /\ work[i].pc \in {"check", "faa"}

\* C22: main-thread statistics are kept per thread per pool: on one thread, the
\* log calls made through one pool's profiler and that profiler's Stop leave
\* unchanged the timestamp stack, event totals and block-size list that another
\* pool's profiler reports for the same thread.
PerPoolMainThreadStats ==
  [][\A p, q \in Profilers :
       (p # q /\ prof_last'.p = p /\ prof_last'.op \in LogCalls \cup {"Stop"}) =>
          GetMainThreadStat(q)' = GetMainThreadStat(q)]_vars

\* C23: under the static policy with N > B >= 1, for every number of work
\* items and every interleaving, every range delivered to fn starts at a
\* multiple of B, every range has width exactly B except at most one, which
\* ends at N, and fn is invoked exactly ceil(N/B) times in total.
StaticBlockStructure ==
  (~Dynamic /\ pc \in {"loop", "done"} /\ shards # <<>>) =>
    LET short == {r \in ranges : Width(r) # block_size}
    IN  /\ total > block_size /\ block_size >= 1
        /\ \A r \in ranges : r[1] % block_size = 0
        /\ \A r \in short : r[2] = total
        /\ Cardinality(short) <= 1
        /\ calls = Cardinality(ranges)
        /\ calls <= DivUp(total, block_size)
        /\ pc = "done" => calls = DivUp(total, block_size)

\* a static loop of three work items has returned after fn was given two full
\* blocks and the short block that ends at N
WitnessStaticBlockStructure ==
  /\ ~Dynamic
  /\ pc = "done"
  /\ shards # <<>>
  /\ Cardinality(DOMAIN work) >= 2
  /\ block_size = 2
  /\ calls = 3
  /\ <<total - 1, total>> \in ranges

\* C24: whenever RunInParallel on a pool dispatches through
\* RunInParallelSection, the section state it passes was allocated and started
\* by that pool; a section the thread opened on another pool is never handed
\* to this pool's worker pool.
SectionStaysWithPool ==
  (last_op.op = "run" /\ last_op.result = "RunInParallelSection") =>
     /\ last_op.ps \in DOMAIN ps_pool
     /\ ps_pool[last_op.ps] = last_op.tp

\* C25: if on a thread every LogEnd / LogEndAndStart call is preceded by a
\* LogStart call not yet matched by a LogEnd, no log call signals a contract
\* violation, wherever a Start of the profiler is interleaved with those calls.
BalancedLoggingNeverFails ==
  prof_last.op \in {"LogStart", "LogEnd", "LogEndAndStart"} =>
     prof_last.result # "violation"

====
